---- MODULE Spec2Model ----
(***************************************************************************)
(* EasyADSB flight logger (src/logger/app.py): the poll loop, the position *)
(* store, the retention sweep, the two persisted config documents and the  *)
(* HTTP handlers that mutate them.                                         *)
(*                                                                         *)
(* Time is counted in hours since midnight of day 0.  `now` is the UTC     *)
(* clock, which SQLite's CURRENT_TIMESTAMP reads; Python's datetime.now()  *)
(* reads the local clock, now + tz.                                        *)
(***************************************************************************)
EXTENDS Integers, Sequences, FiniteSets, TLC

\* ---------------------------------------------------------------- bounds
DayUnits == 24         \* clock units per day (timedelta(days=1))
HourUnits == 1         \* clock units per hour (timedelta(hours=1))
StartTime == 49        \* UTC clock at process start: 01:00 on day 2
MaxTime == StartTime + 1    \* the clock stops advancing here
MaxInitRows == 2       \* rows left in the database by earlier runs
MaxBatch == 2          \* longest aircraft list the feed returns
MaxId == 3             \* largest AUTOINCREMENT id handed out
MaxPolls == 2          \* polls explored by the specifications that bound the loop
MaxPausedTicks == 2    \* paused iterations explored between two sweeps
MaxRetention == 2      \* largest retention_days explored

\* ------------------------------------------------------ program constants
CleanupEvery == 360
MinInterval == 5
MaxInterval == 60
DefaultInterval == 10

\* ------------------------------------------------------- python helpers
\* An optional value: <<>> is None (SQL NULL), <<v>> is v.
None == <<>>
Some(v) == <<v>>

\* dict.get(k): None when the key is absent.
Get(d, k) == IF k \in DOMAIN d THEN Some(d[k]) ELSE None

\* Truth value of an optional number: None and 0 are false.
Truthy(o) == o # None /\ o[1] # 0

\* a or b
PyOr(a, b) == IF Truthy(a) THEN a ELSE b

\* str.upper() on the hex identifiers of the feed
Upper(s) == CASE s = "a1b2c3" -> "A1B2C3"
              [] s = "4ca7f1" -> "4CA7F1"
              [] OTHER -> s

\* --------------------------------------------------------------- inputs
\* Aircraft records as the feed delivers them: a record carries only the
\* keys it has.
Aircraft ==
  { [hex |-> "a1b2c3", lat |-> 51, lon |-> 7, alt_baro |-> 300, alt_geom |-> 325,
     baro_rate |-> 64, geom_rate |-> 32],
    [hex |-> "4ca7f1", lat |-> 48, lon |-> 11, alt_baro |-> 0, alt_geom |-> 25,
     baro_rate |-> 0, geom_rate |-> 16],
    [hex |-> "4CA7F1", lat |-> 48, lon |-> 11, alt_geom |-> 350],
    [hex |-> "a1b2c3", lat |-> 51, alt_baro |-> 300],
    [hex |-> "a1b2c3", lon |-> 7, alt_baro |-> 300],
    [hex |-> "4ca7f1", alt_baro |-> 300] }

SeqsUpTo(S, n) == UNION { [1..k -> S] : k \in 0..n }

Batches == SeqsUpTo(Aircraft, MaxBatch)

\* What one fetch of the feed can yield.
FeedFailures == { "unreachable", "http_error", "bad_json" }
FeedOutcomes == FeedFailures \cup { "ok", "no_aircraft_key", "not_object" }

VARIABLES
  now,                 \* UTC clock
  tz,                  \* local clock minus UTC clock (fixed by the environment)
  positions,           \* table positions: a set of rows
  next_id,             \* next AUTOINCREMENT id
  LOG_INTERVAL,
  LOG_RETENTION_DAYS,
  logger_paused,
  last_poll_time,
  last_poll_count,
  total_logged,
  pcLoop,              \* position of the logger thread in logger_loop
  aircraft,            \* logger_loop: the list poll_ultrafeeder returned
  count,               \* logger_loop: what save_aircraft returned
  cleanup_counter,
  pcMain,              \* position of the main thread in the startup code
  cleaned,             \* what the last cleanup_old_records call returned
  feed,                \* how the last feed request ended
  fetches,             \* feed requests sent in the current loop iteration
  iterations,          \* loop iterations since the loop last swept (or started)
  polled,              \* of those, the iterations that polled
  configFile,          \* the document at CONFIG_PATH
  userFile,            \* the document at USER_CONFIG_PATH
  hs                   \* request handler threads: position, request, locals, response

storeVars == << positions, next_id, total_logged >>
settingVars == << LOG_INTERVAL, LOG_RETENTION_DAYS, logger_paused >>
loopVars == << pcLoop, aircraft, count, cleanup_counter, last_poll_time,
               last_poll_count, feed, fetches, iterations, polled >>
webVars == << configFile, userFile, hs >>
vars == << now, tz, storeVars, settingVars, loopVars, pcMain, cleaned, webVars >>

\* ------------------------------------------------------- position store
\* save_aircraft: the record is skipped when it has no position.
SkipRecordOnlyIfBothMissing(ac) == "lat" \notin DOMAIN ac /\ "lon" \notin DOMAIN ac

SkipRecord(ac) == "lat" \notin DOMAIN ac \/ "lon" \notin DOMAIN ac

\* The row one INSERT writes: timestamp defaults to CURRENT_TIMESTAMP (UTC).
Row(id, ts, ac) ==
  [ id |-> id,
    timestamp |-> ts,
    icao |-> Upper(IF "hex" \in DOMAIN ac THEN ac.hex ELSE ""),
    lat |-> Get(ac, "lat"),
    lon |-> Get(ac, "lon"),
    altitude |-> PyOr(Get(ac, "alt_baro"), Get(ac, "alt_geom")),
    vert_rate |-> PyOr(Get(ac, "baro_rate"), Get(ac, "geom_rate")) ]

\* The rows the loop of save_aircraft inserts for a list, ids from id on.
RECURSIVE InsertAll(_, _, _)
InsertAll(list, id, ts) ==
  IF list = << >> THEN {}
  ELSE IF SkipRecord(Head(list)) THEN InsertAll(Tail(list), id, ts)
  ELSE { Row(id, ts, Head(list)) } \cup InsertAll(Tail(list), id + 1, ts)

\* cutoff = datetime.now() - timedelta(days=LOG_RETENTION_DAYS): local clock.
Cutoff == (now + tz) - LOG_RETENTION_DAYS * DayUnits

\* WHERE timestamp < cutoff
Expired(r) == r.timestamp < Cutoff

\* cleanup_old_records: the table afterwards and the value returned.
CleanupSkipsNegativeOnly == LOG_RETENTION_DAYS < 0

CleanupSkips == LOG_RETENTION_DAYS <= 0
CleanupTable == IF CleanupSkips THEN positions ELSE { r \in positions : ~Expired(r) }
CleanupCount == IF CleanupSkips THEN 0 ELSE Cardinality({ r \in positions : Expired(r) })

\* ----------------------------------------------------------------- Init
\* Insertion times of the rows an earlier run left behind: this hour, the
\* hour before, and the hours around each whole number of days ago.
InitStamps ==
  { t \in { StartTime - a : a \in { 0, HourUnits } \cup
                                  { d * DayUnits + k : d \in 1..MaxRetention,
                                                       k \in { -HourUnits, 0, HourUnits } } } :
      t >= 0 }

\* Timestamps of a table in id order: AUTOINCREMENT ids follow insertion.
StampSeqs ==
  { s \in SeqsUpTo(InitStamps, MaxInitRows) :
      \A i \in DOMAIN s : \A j \in DOMAIN s : i <= j => s[i] <= s[j] }

\* Tables an earlier run of the process left behind: ids 1..n, timestamps
\* not after the start of this run and not decreasing with the id.
InitTables ==
  { { Row(i, ts[i], CHOOSE ac \in Aircraft : ~SkipRecord(ac) /\ "baro_rate" \in DOMAIN ac /\ ac.alt_baro # 0)
        : i \in DOMAIN ts }
    : ts \in StampSeqs }

\* A persisted document: missing, malformed, or holding doc.
NoDoc == << >>
MissingFile == [ status |-> "missing", doc |-> NoDoc ]
MalformedFile == [ status |-> "malformed", doc |-> NoDoc ]
OkFile(d) == [ status |-> "ok", doc |-> d ]

\* load_config: a readable document overrides the environment's values.
LoadedInterval(file, env) ==
  IF file.status = "ok" /\ "interval" \in DOMAIN file.doc THEN file.doc.interval ELSE env
LoadedRetention(file, env) ==
  IF file.status = "ok" /\ "retention_days" \in DOMAIN file.doc
    THEN file.doc.retention_days ELSE env
LoadedPaused(file, env) ==
  IF file.status = "ok"
    THEN (IF "paused" \in DOMAIN file.doc THEN file.doc.paused ELSE FALSE)
    ELSE env

\* A handler thread between two requests.
Idle == [ pc |-> "idle", op |-> "none", data |-> << >>, cfg |-> << >>,
          failed |-> FALSE, resp |-> << >> ]

Handlers == { "h1", "h2" }

\* The state once load_config has run and the logger thread is started:
\* the database and the two documents are whatever earlier runs left, the
\* settings come from the environment unless the settings document is readable.
InitWith(tables, zones, cfiles, ufiles, envIntervals, envRetentions) ==
  /\ now = StartTime
  /\ tz \in zones
  /\ positions \in tables
  /\ next_id = Cardinality(positions) + 1
  /\ configFile \in cfiles
  /\ userFile \in ufiles
  /\ LOG_INTERVAL \in { LoadedInterval(configFile, e) : e \in envIntervals }
  /\ LOG_RETENTION_DAYS \in { LoadedRetention(configFile, e) : e \in envRetentions }
  /\ logger_paused = LoadedPaused(configFile, FALSE)
  /\ last_poll_time = None
  /\ last_poll_count = 0
  /\ total_logged = 0
  /\ pcLoop = "check"
  /\ aircraft = << >>
  /\ count = 0
  /\ cleanup_counter = 0
  /\ pcMain = "cleanup"
  /\ cleaned = 0
  /\ feed = "none"
  /\ fetches = 0
  /\ iterations = 0
  /\ polled = 0
  /\ hs = [ h \in Handlers |-> Idle ]

\* ------------------------------------------------------------ the clock
ClockAdvance ==
  /\ now < MaxTime
  /\ now' = now + 1
  /\ UNCHANGED << webVars, tz, storeVars, settingVars, loopVars, pcMain, cleaned >>

\* ---------------------------------------------------------- main thread
\* __main__: the initial cleanup_old_records(), then app.run.
StartupCleanup ==
  /\ pcMain = "cleanup"
  /\ positions' = CleanupTable
  /\ cleaned' = CleanupCount
  /\ pcMain' = "serving"
  /\ UNCHANGED << webVars, now, tz, next_id, total_logged, settingVars, loopVars >>

\* --------------------------------------------------------- logger thread
\* while logger_running: if not logger_paused: ... else straight to the sleep.
TickPollsAlways == TRUE

TickPolls == ~logger_paused

LoopCheck(limit) ==
  /\ pcLoop = "check"
  /\ cleanup_counter < limit
  /\ IF TickPolls
       THEN /\ pcLoop' = "fetch"
            /\ polled' = polled + 1
       ELSE /\ iterations - polled < MaxPausedTicks
            /\ pcLoop' = "sleep"
            /\ polled' = polled
  /\ iterations' = iterations + 1
  /\ fetches' = 0
  /\ UNCHANGED << webVars, now, tz, storeVars, settingVars, aircraft, count, cleanup_counter,
                  last_poll_time, last_poll_count, feed, pcMain, cleaned >>

\* poll_ultrafeeder: what it returns for an outcome of the request.
PollResult(outcome, list) ==
  CASE outcome = "ok" -> list
    [] outcome = "no_aircraft_key" -> << >>
    [] outcome \in FeedFailures -> << >>
    [] OTHER -> << >>

\* The requests.get / raise_for_status / json() failures are caught; a
\* document that is no JSON object makes data.get raise AttributeError,
\* which nothing catches: the thread ends.
FetchRaisesAlsoOnBadJson(outcome) == outcome \in { "not_object", "bad_json" }

FetchRaises(outcome) == outcome = "not_object"

\* aircraft = poll_ultrafeeder()
LoopFetch(batches) ==
  /\ pcLoop = "fetch"
  /\ \E outcome \in FeedOutcomes : \E list \in batches :
       /\ outcome # "ok" => list = << >>
       /\ next_id + Len(list) - 1 <= MaxId
       /\ feed' = outcome
       /\ IF FetchRaises(outcome)
            THEN pcLoop' = "dead" /\ aircraft' = aircraft
            ELSE pcLoop' = "save" /\ aircraft' = PollResult(outcome, list)
  /\ fetches' = fetches + 1
  /\ UNCHANGED << webVars, now, tz, storeVars, settingVars, count, cleanup_counter,
                  last_poll_time, last_poll_count, iterations, polled, pcMain, cleaned >>

\* count = save_aircraft(aircraft)
LoopSave ==
  /\ pcLoop = "save"
  /\ LET new == InsertAll(aircraft, next_id, now) IN
       /\ positions' = positions \cup new
       /\ next_id' = next_id + Cardinality(new)
       /\ count' = Cardinality(new)
       /\ total_logged' = total_logged + Cardinality(new)
  /\ pcLoop' = "record"
  /\ UNCHANGED << feed, webVars, now, tz, settingVars, aircraft, cleanup_counter, last_poll_time,
                  last_poll_count, fetches, iterations, polled, pcMain, cleaned >>

\* last_poll_time, last_poll_count, cleanup_counter += 1 and the test on it
SweepDueLate(n) == n > CleanupEvery

SweepDue(n) == n >= CleanupEvery

LoopRecord ==
  /\ pcLoop = "record"
  /\ last_poll_time' = Some(now + tz)
  /\ last_poll_count' = count
  /\ cleanup_counter' = cleanup_counter + 1
  /\ pcLoop' = IF SweepDue(cleanup_counter + 1) THEN "cleanup" ELSE "sleep"
  /\ UNCHANGED << feed, webVars, now, tz, storeVars, settingVars, aircraft, count, fetches,
                  iterations, polled, pcMain, cleaned >>

\* cleanup_old_records(); cleanup_counter = 0
LoopCleanup ==
  /\ pcLoop = "cleanup"
  /\ positions' = CleanupTable
  /\ cleaned' = CleanupCount
  /\ cleanup_counter' = 0
  /\ iterations' = 0
  /\ polled' = 0
  /\ pcLoop' = "sleep"
  /\ UNCHANGED << feed, webVars, now, tz, next_id, total_logged, settingVars, aircraft, count,
                  last_poll_time, last_poll_count, fetches, pcMain >>

\* time.sleep(LOG_INTERVAL)
LoopSleep ==
  /\ pcLoop = "sleep"
  /\ pcLoop' = "check"
  /\ UNCHANGED << feed, webVars, now, tz, storeVars, settingVars, aircraft, count, cleanup_counter,
                  last_poll_time, last_poll_count, fetches, iterations, polled,
                  pcMain, cleaned >>

\* ------------------------------------------------------ request handlers
\* Flask serves each request on its own thread (threaded=True) once the
\* main thread has reached app.run.
Serving(h) == pcMain = "serving" /\ hs[h].pc = "idle"
Begin(h, op, pc, data) == [ Idle EXCEPT !.op = op, !.pc = pc, !.data = data ]

\* Request bodies of POST /api/settings: each key may be absent.
IntervalInputs == { MinInterval - 1, MinInterval, MaxInterval, MaxInterval + 1 }
RetentionInputs == { -1, 0 }
SettingsBodies ==
  { [ k \in {} |-> 0 ] }
    \cup { [ interval |-> i ] : i \in IntervalInputs }
    \cup { [ retention_days |-> r ] : r \in RetentionInputs }
    \cup { [ interval |-> i, retention_days |-> r ] : i \in IntervalInputs, r \in RetentionInputs }

\* if 5 <= new_interval <= 60 / if new_retention >= 0
IntervalOkNoUpperBound(n) == MinInterval <= n

IntervalOk(n) == MinInterval <= n /\ n <= MaxInterval
RetentionOk(n) == n >= 0

\* What an attempt to write a document can do: succeed, fail in open()
\* (document untouched), or fail in json.dump after open() truncated it.
WriteOutcomes == { "ok", "open_fails", "dump_fails" }
WriteResult(file, doc, outcome) ==
  CASE outcome = "ok" -> OkFile(doc)
    [] outcome = "open_fails" -> file
    [] outcome = "dump_fails" -> MalformedFile

\* POST /api/settings: data = request.get_json()
ApiSettingsPost(h) ==
  /\ Serving(h)
  /\ \E body \in SettingsBodies :
       hs' = [ hs EXCEPT ![h] = Begin(h, "settings", "interval", body) ]
  /\ UNCHANGED << now, tz, storeVars, settingVars, loopVars, pcMain, cleaned,
                  configFile, userFile >>

\* if 'interval' in data: ...
SettingsInterval(h) ==
  /\ hs[h].pc = "interval"
  /\ LOG_INTERVAL' =
       IF "interval" \in DOMAIN hs[h].data /\ IntervalOk(hs[h].data.interval)
         THEN hs[h].data.interval ELSE LOG_INTERVAL
  /\ hs' = [ hs EXCEPT ![h].pc = "retention" ]
  /\ UNCHANGED << now, tz, storeVars, LOG_RETENTION_DAYS, logger_paused, loopVars,
                  pcMain, cleaned, configFile, userFile >>

\* if 'retention_days' in data: ...
SettingsRetention(h) ==
  /\ hs[h].pc = "retention"
  /\ LOG_RETENTION_DAYS' =
       IF "retention_days" \in DOMAIN hs[h].data /\ RetentionOk(hs[h].data.retention_days)
         THEN hs[h].data.retention_days ELSE LOG_RETENTION_DAYS
  /\ hs' = [ hs EXCEPT ![h].pc = "save_config" ]
  /\ UNCHANGED << now, tz, storeVars, LOG_INTERVAL, logger_paused, loopVars,
                  pcMain, cleaned, configFile, userFile >>

\* POST /api/pause, POST /api/resume: set the flag, then save_config()
ApiPause(h) ==
  /\ Serving(h)
  /\ logger_paused' = TRUE
  /\ hs' = [ hs EXCEPT ![h] = Begin(h, "pause", "save_config", << >>) ]
  /\ UNCHANGED << now, tz, storeVars, LOG_INTERVAL, LOG_RETENTION_DAYS, loopVars,
                  pcMain, cleaned, configFile, userFile >>

ApiResume(h) ==
  /\ Serving(h)
  /\ logger_paused' = FALSE
  /\ hs' = [ hs EXCEPT ![h] = Begin(h, "resume", "save_config", << >>) ]
  /\ UNCHANGED << now, tz, storeVars, LOG_INTERVAL, LOG_RETENTION_DAYS, loopVars,
                  pcMain, cleaned, configFile, userFile >>

\* save_config: the dict built from the globals ...
SaveConfigBuild(h) ==
  /\ hs[h].pc = "save_config"
  /\ hs' = [ hs EXCEPT ![h].pc = "write",
                       ![h].cfg = [ interval |-> LOG_INTERVAL,
                                    retention_days |-> LOG_RETENTION_DAYS,
                                    paused |-> logger_paused ] ]
  /\ UNCHANGED << now, tz, storeVars, settingVars, loopVars, pcMain, cleaned,
                  configFile, userFile >>

\* ... and written; an exception is logged and swallowed, nothing is returned.
SaveConfigWrite(h) ==
  /\ hs[h].pc = "write"
  /\ \E outcome \in WriteOutcomes :
       /\ configFile' = WriteResult(configFile, hs[h].cfg, outcome)
       /\ hs' = [ hs EXCEPT ![h].pc = "respond", ![h].failed = (outcome # "ok") ]
  /\ UNCHANGED << now, tz, storeVars, settingVars, loopVars, pcMain, cleaned, userFile >>

\* The jsonify(...) each of the three handlers returns after save_config().
ConfigResponse(op) ==
  CASE op = "settings" -> [ status |-> 200, success |-> TRUE, interval |-> LOG_INTERVAL,
                            retention_days |-> LOG_RETENTION_DAYS ]
    [] op = "pause" -> [ status |-> 200, success |-> TRUE, paused |-> TRUE ]
    [] op = "resume" -> [ status |-> 200, success |-> TRUE, paused |-> FALSE ]

Respond(h) ==
  /\ hs[h].pc = "respond"
  /\ hs' = [ hs EXCEPT ![h] = [ Idle EXCEPT !.resp = ConfigResponse(hs[h].op) ] ]
  /\ UNCHANGED << now, tz, storeVars, settingVars, loopVars, pcMain, cleaned,
                  configFile, userFile >>

\* GET /api/settings
ApiSettingsGet(h) ==
  /\ Serving(h)
  /\ hs' = [ hs EXCEPT ![h] = [ Idle EXCEPT !.op = "settings_get", !.resp =
               [ status |-> 200, interval |-> LOG_INTERVAL,
                 retention_days |-> LOG_RETENTION_DAYS, paused |-> logger_paused ] ] ]
  /\ UNCHANGED << now, tz, storeVars, settingVars, loopVars, pcMain, cleaned,
                  configFile, userFile >>

\* The user document: any JSON object; the patches of POST /api/userconfig.
UserKeys == { "shortid", "theme" }
UserValues == { 1, 2 }
UserDocs == UNION { [ K -> UserValues ] : K \in SUBSET UserKeys }

\* load_user_config: {} when the document is missing or unreadable.
LoadUserConfig == IF userFile.status = "ok" THEN userFile.doc ELSE [ k \in {} |-> 0 ]

\* config.update(data)
Update(config, data) ==
  [ k \in DOMAIN config \cup DOMAIN data |-> IF k \in DOMAIN data THEN data[k] ELSE config[k] ]

\* POST /api/userconfig: an empty body is answered 400.
ApiUserConfigPost(h) ==
  /\ Serving(h)
  /\ \E patch \in UserDocs :
       hs' = [ hs EXCEPT ![h] =
                 IF DOMAIN patch = {}
                   THEN [ Idle EXCEPT !.resp = [ status |-> 400, success |-> FALSE ] ]
                   ELSE Begin(h, "userconfig", "uc_load", patch) ]
  /\ UNCHANGED << now, tz, storeVars, settingVars, loopVars, pcMain, cleaned,
                  configFile, userFile >>

\* config = load_user_config(); config.update(data)
UserConfigLoad(h) ==
  /\ hs[h].pc = "uc_load"
  /\ hs' = [ hs EXCEPT ![h].pc = "uc_save", ![h].cfg = Update(LoadUserConfig, hs[h].data) ]
  /\ UNCHANGED << now, tz, storeVars, settingVars, loopVars, pcMain, cleaned,
                  configFile, userFile >>

\* if save_user_config(config): 200 else 500
UserConfigSave(h) ==
  /\ hs[h].pc = "uc_save"
  /\ \E outcome \in WriteOutcomes :
       /\ userFile' = WriteResult(userFile, hs[h].cfg, outcome)
       /\ hs' = [ hs EXCEPT ![h] = [ Idle EXCEPT !.resp =
                    IF outcome = "ok"
                      THEN [ status |-> 200, success |-> TRUE, config |-> hs[h].cfg ]
                      ELSE [ status |-> 500, success |-> FALSE ] ] ]
  /\ UNCHANGED << now, tz, storeVars, settingVars, loopVars, pcMain, cleaned, configFile >>

\* GET /api/userconfig
ApiUserConfigGet(h) ==
  /\ Serving(h)
  /\ hs' = [ hs EXCEPT ![h] = [ Idle EXCEPT !.resp =
               [ status |-> 200, config |-> LoadUserConfig ] ] ]
  /\ UNCHANGED << now, tz, storeVars, settingVars, loopVars, pcMain, cleaned,
                  configFile, userFile >>

\* POST /api/clear: DELETE opens a transaction on the connection (sqlite3
\* begins one before a DELETE and no longer commits before other
\* statements); SQLite refuses VACUUM inside a transaction, so
\* cursor.execute('VACUUM') raises OperationalError.  The handler ends
\* there: the connection is dropped with its DELETE uncommitted, the
\* assignment total_logged = 0 is not reached, Flask answers 500.
ApiClear(h) ==
  /\ Serving(h)
  /\ hs' = [ hs EXCEPT ![h] = [ Idle EXCEPT !.op = "clear", !.resp = [ status |-> 500 ] ] ]
  /\ UNCHANGED << now, tz, storeVars, settingVars, loopVars, pcMain, cleaned,
                  configFile, userFile >>

\* GET /api/recent.  A timestamp as text is 'YYYY-MM-DD', a separator and
\* 'HH:MM:SS': CURRENT_TIMESTAMP writes a space between the two, isoformat()
\* a 'T'.  SQLite compares the column with the parameter as text.
SpaceSep == 32
IsoSep == 84
Text(t, sep) == [ date |-> t \div DayUnits, sep |-> sep, time |-> t % DayUnits ]

\* a >= b for two such texts: the date, then the separator, then the time.
TextGeq(a, b) ==
  \/ a.date > b.date
  \/ a.date = b.date /\ a.sep > b.sep
  \/ a.date = b.date /\ a.sep = b.sep /\ a.time >= b.time

\* one_hour_ago = (datetime.now() - timedelta(hours=1)).isoformat()
OneHourAgo == Text((now + tz) - HourUnits, IsoSep)

\* WHERE timestamp >= ?
RecentRows == { r \in positions : TextGeq(Text(r.timestamp, SpaceSep), OneHourAgo) }

\* MAX() over a column of a group: NULLs are left out, NULL when all are NULL.
MaxOf(S) ==
  LET vals == { o[1] : o \in { x \in S : x # None } }
  IN IF vals = {} THEN None ELSE Some(CHOOSE v \in vals : \A w \in vals : w <= v)

\* GROUP BY icao: one entry for each icao among the selected rows.
Entry(rows, icao) ==
  LET g == { r \in rows : r.icao = icao }
  IN [ icao |-> icao,
       lat |-> MaxOf({ r.lat : r \in g }),
       lon |-> MaxOf({ r.lon : r \in g }),
       altitude |-> MaxOf({ r.altitude : r \in g }),
       last_seen |-> CHOOSE t \in { r.timestamp : r \in g } :
                       \A r \in g : r.timestamp <= t,
       positions |-> Cardinality(g) ]
Entries(rows) == { Entry(rows, i) : i \in { r.icao : r \in rows } }

\* ORDER BY last_seen DESC LIMIT 50: the order among equal last_seen is the
\* database's choice.
RecentLimit == 50
Shorter(n, m) == IF n <= m THEN n ELSE m
Ordered(es) ==
  { s \in [ 1..Shorter(Cardinality(es), RecentLimit) -> es ] :
      /\ \A i \in DOMAIN s : \A j \in DOMAIN s :
           /\ i < j => s[i].last_seen >= s[j].last_seen
           /\ i # j => s[i] # s[j]
      /\ \A e \in es : (\A i \in DOMAIN s : s[i] # e) =>
           \A i \in DOMAIN s : s[i].last_seen >= e.last_seen }

ApiRecent(h) ==
  /\ Serving(h)
  /\ \E list \in Ordered(Entries(RecentRows)) :
       hs' = [ hs EXCEPT ![h] = [ Idle EXCEPT !.op = "recent", !.resp =
                 [ status |-> 200, aircraft |-> list ] ] ]
  /\ UNCHANGED << now, tz, storeVars, settingVars, loopVars, pcMain, cleaned,
                  configFile, userFile >>

\* ------------------------------------------------------- specifications
EmptyTable == { {} }
UtcOnly == { 0 }
Zones == { -1, 0, 1 }

\* A short list with one record that has a position and one that has none.
FewBatches ==
  LET a == CHOOSE ac \in Aircraft : ~SkipRecord(ac) /\ "alt_baro" \in DOMAIN ac /\ ac.alt_baro # 0
      b == CHOOSE ac \in Aircraft : "lat" \notin DOMAIN ac /\ "lon" \notin DOMAIN ac
  IN { << >>, << a >>, << b, a >> }

\* The store: the startup sweep over what earlier runs left, the first
\* polls of the loop, clear requests.
InitStore ==
  InitWith(InitTables, Zones, { MissingFile }, { MissingFile },
           { DefaultInterval }, 0..MaxRetention)

NextStore ==
  \/ ClockAdvance
  \/ StartupCleanup
  \/ LoopCheck(1)
  \/ LoopFetch(FewBatches)
  \/ LoopSave
  \/ LoopRecord
  \/ LoopSleep
  \/ ApiClear("h1")

SpecStore == InitStore /\ [][NextStore]_vars

\* The poller on a fresh database: the first polls of the loop over every
\* list the feed can return.
InitPoll ==
  InitWith(EmptyTable, UtcOnly, { MissingFile }, { MissingFile },
           { DefaultInterval }, { 1 })

NextPoll ==
  \/ ClockAdvance
  \/ StartupCleanup
  \/ LoopCheck(MaxPolls)
  \/ LoopFetch(Batches)
  \/ LoopSave
  \/ LoopRecord
  \/ LoopSleep

SpecPoll == InitPoll /\ [][NextPoll]_vars

\* The settings: concurrent settings requests.
InitSettings ==
  InitWith(EmptyTable, UtcOnly, { MissingFile }, { MissingFile },
           { DefaultInterval, MaxInterval + 40 }, { -1, 1 })

NextSettings ==
  \/ StartupCleanup
  \/ \E h \in Handlers :
       \/ ApiSettingsPost(h)
       \/ SettingsInterval(h)
       \/ SettingsRetention(h)
       \/ SaveConfigBuild(h)
       \/ SaveConfigWrite(h)
       \/ Respond(h)
       \/ ApiSettingsGet(h)

SpecSettings == InitSettings /\ [][NextSettings]_vars

\* The user document: concurrent userconfig requests.
InitUserConfig ==
  InitWith(EmptyTable, UtcOnly, { MissingFile },
           { MissingFile, MalformedFile, OkFile([ shortid |-> 1 ]) },
           { DefaultInterval }, { 1 })

NextUserConfig ==
  \/ StartupCleanup
  \/ \E h \in Handlers :
       \/ ApiUserConfigPost(h)
       \/ UserConfigLoad(h)
       \/ UserConfigSave(h)
       \/ ApiUserConfigGet(h)

SpecUserConfig == InitUserConfig /\ [][NextUserConfig]_vars

\* The loop next to pause and resume requests, its first polls, within one
\* unit of the clock.
InitLoop ==
  InitWith(EmptyTable, UtcOnly, { MissingFile }, { MissingFile }, { DefaultInterval }, { 1 })

NextLoop ==
  \/ StartupCleanup
  \/ LoopCheck(MaxPolls)
  \/ LoopFetch(FewBatches)
  \/ LoopSave
  \/ LoopRecord
  \/ LoopSleep
  \/ \E h \in Handlers :
       \/ ApiPause(h)
       \/ ApiResume(h)
       \/ SaveConfigBuild(h)
       \/ SaveConfigWrite(h)
       \/ Respond(h)

SpecLoop == InitLoop /\ [][NextLoop]_vars

\* The loop up to and past its sweeps, next to pause and resume requests;
\* the feed reports no aircraft.
NextSweep ==
  \/ StartupCleanup
  \/ LoopCheck(CleanupEvery)
  \/ LoopFetch({ << >> })
  \/ LoopSave
  \/ LoopRecord
  \/ LoopCleanup
  \/ LoopSleep
  \/ ApiPause("h1")
  \/ ApiResume("h1")
  \/ SaveConfigBuild("h1")
  \/ SaveConfigWrite("h1")
  \/ Respond("h1")

SpecSweep == InitLoop /\ [][NextSweep]_vars

\* The recent-aircraft query over what earlier runs stored: any records with
\* a position, in any zone, with retention off so that the startup sweep
\* keeps the rows.
Positionable == { ac \in Aircraft : ~SkipRecord(ac) }
RecentTables ==
  UNION { { { Row(i, ts[i], acs[i]) : i \in DOMAIN ts } : acs \in [ DOMAIN ts -> Positionable ] }
          : ts \in StampSeqs }

InitRecent ==
  InitWith(RecentTables, Zones, { MissingFile }, { MissingFile }, { DefaultInterval }, { 0 })

NextRecent ==
  \/ ClockAdvance
  \/ StartupCleanup
  \/ \E h \in Handlers : ApiRecent(h)

SpecRecent == InitRecent /\ [][NextRecent]_vars

\* Concurrent settings, pause and resume requests on a disk that takes every
\* write: save_config with the write succeeding.
SaveConfigWritten(h) == SaveConfigWrite(h) /\ ~hs'[h].failed

InitPersist ==
  InitWith(EmptyTable, UtcOnly, { MissingFile }, { MissingFile }, { DefaultInterval }, { 1 })

NextPersist ==
  \/ StartupCleanup
  \/ \E h \in Handlers :
       \/ ApiSettingsPost(h)
       \/ SettingsInterval(h)
       \/ SettingsRetention(h)
       \/ ApiPause(h)
       \/ ApiResume(h)
       \/ SaveConfigBuild(h)
       \/ SaveConfigWritten(h)
       \/ Respond(h)

SpecPersist == InitPersist /\ [][NextPersist]_vars

\* ================================================================ claims
\* A call of save_aircraft completes / a call of cleanup_old_records completes.
SaveStep == pcLoop = "save" /\ pcLoop' = "record"
SweepStep == \/ pcMain = "cleanup" /\ pcMain' = "serving"
             \/ pcLoop = "cleanup" /\ pcLoop' = "sleep"

\* Indices of the records of a list that carry both lat and lon, and the
\* number of such records before index i.
Positioned(list) == { i \in DOMAIN list : "lat" \in DOMAIN list[i] /\ "lon" \in DOMAIN list[i] }
Rank(list, i) == Cardinality({ j \in Positioned(list) : j < i })

\* C1: a batch passed to save_aircraft adds no row for a record lacking lat
\* or lon, exactly one row for each record that has both, and returns the
\* number of rows it added.
C1_OneRowPerPositionedRecord ==
  [][ SaveStep =>
        LET new == positions' \ positions IN
          /\ positions \subseteq positions'
          /\ \A r \in new : r.lat # None /\ r.lon # None
          /\ Cardinality(new) = Cardinality(Positioned(aircraft))
          /\ \A i \in Positioned(aircraft) :
               \E r \in new :
                 /\ r.id = next_id + Rank(aircraft, i)
                 /\ r.lat = Some(aircraft[i].lat)
                 /\ r.lon = Some(aircraft[i].lon)
                 /\ r.icao = Upper(aircraft[i].hex)
                 /\ \A q \in new : q.id = r.id => q = r
          /\ count' = Cardinality(new) ]_vars

\* A batch of two records, one with a position and one without, was saved.
C1_Witness ==
  /\ pcLoop = "record"
  /\ Len(aircraft) = 2
  /\ Cardinality(Positioned(aircraft)) = 1
  /\ count = 1

\* C2: with retention_days = N > 0 a sweep deletes exactly the snapshots
\* whose timestamp is older than now minus N days and returns their number.
C2_SweepDeletesExactlyTheOld ==
  [][ (SweepStep /\ LOG_RETENTION_DAYS > 0) =>
        /\ positions' = { r \in positions :
                            ~(r.timestamp < now - LOG_RETENTION_DAYS * DayUnits) }
        /\ cleaned' = Cardinality(positions \ positions') ]_vars

\* C3: with retention_days = 0 a sweep leaves the stored snapshots as they
\* are, whatever their age, and returns 0.
C3_ZeroRetentionKeepsAll ==
  [][ (SweepStep /\ LOG_RETENTION_DAYS = 0) =>
        (positions' = positions /\ cleaned' = 0) ]_vars

\* The startup sweep ran with retention_days = 0 over a table holding a
\* snapshot a day old or older.
C3_Witness ==
  /\ pcMain = "serving"
  /\ LOG_RETENTION_DAYS = 0
  /\ cleaned = 0
  /\ \E r \in positions : r.timestamp <= now - DayUnits

\* Steps of the request handlers.
IntervalStep(h) == hs[h].pc = "interval" /\ hs'[h].pc = "retention"
RetentionStep(h) == hs[h].pc = "retention" /\ hs'[h].pc = "save_config"
SettingsReadStep(h) == hs[h].pc = "idle" /\ hs'[h].pc = "idle" /\ hs'[h] # hs[h]
                         /\ hs'[h].op = "settings_get"
PauseStep(h) == hs[h].pc = "idle" /\ hs'[h].op = "pause"
ResumeStep(h) == hs[h].pc = "idle" /\ hs'[h].op = "resume"
ClearStep(h) == hs[h].pc = "idle" /\ hs'[h] # hs[h] /\ hs'[h].op = "clear"
ConfigRespondStep(h) == hs[h].pc = "respond" /\ hs'[h].pc = "idle"
UserSaveStep(h) == hs[h].pc = "uc_save" /\ hs'[h].pc = "idle"

InRange(n) == n \in MinInterval..MaxInterval

\* C4: a settings update stores an interval in [5,60] and a retention_days
\* >= 0 as given and the settings read returns the stored values; an interval
\* outside [5,60] (a negative retention_days) leaves the stored value as it
\* was; nothing else changes the two, so an in-range interval stays in range
\* and a retention_days >= 0 stays >= 0.
C4_SettingsRoundTrip ==
  [][ /\ \A h \in Handlers :
           /\ IntervalStep(h) =>
                LOG_INTERVAL' =
                  IF "interval" \in DOMAIN hs[h].data /\ InRange(hs[h].data.interval)
                    THEN hs[h].data.interval ELSE LOG_INTERVAL
           /\ RetentionStep(h) =>
                LOG_RETENTION_DAYS' =
                  IF "retention_days" \in DOMAIN hs[h].data /\ hs[h].data.retention_days >= 0
                    THEN hs[h].data.retention_days ELSE LOG_RETENTION_DAYS
           /\ SettingsReadStep(h) =>
                /\ hs'[h].resp.interval = LOG_INTERVAL
                /\ hs'[h].resp.retention_days = LOG_RETENTION_DAYS
      /\ LOG_INTERVAL' # LOG_INTERVAL => \E h \in Handlers : IntervalStep(h)
      /\ LOG_RETENTION_DAYS' # LOG_RETENTION_DAYS => \E h \in Handlers : RetentionStep(h)
      /\ InRange(LOG_INTERVAL) => InRange(LOG_INTERVAL')
      /\ LOG_RETENTION_DAYS >= 0 => LOG_RETENTION_DAYS' >= 0 ]_vars

\* A read returned values only an update can have stored, while another
\* request's out-of-range interval has just been turned down.
C4_Witness ==
  \E h \in Handlers : \E g \in Handlers \ { h } :
    /\ hs[h].pc = "idle" /\ hs[h].op = "settings_get"
    /\ hs[h].resp.interval = MaxInterval
    /\ hs[h].resp.retention_days = 0
    /\ hs[g].pc = "retention"
    /\ "interval" \in DOMAIN hs[g].data
    /\ hs[g].data.interval = MaxInterval + 1
    /\ LOG_INTERVAL = MaxInterval

\* C5: when POST /api/clear has completed the table is empty and
\* total_logged is 0.
C5_ClearEmptiesTableAndCounter ==
  [][ \A h \in Handlers : ClearStep(h) => (positions' = {} /\ total_logged' = 0) ]_vars

\* C6: a successful merge-write with patch P leaves every key of P with P's
\* value in the stored user document and every other key of the document
\* stored until then with its value.
C6_MergeWriteKeepsOtherKeys ==
  [][ \A h \in Handlers :
        (UserSaveStep(h) /\ hs'[h].resp.success) =>
          /\ userFile'.status = "ok"
          /\ \A k \in DOMAIN hs[h].data :
               k \in DOMAIN userFile'.doc /\ userFile'.doc[k] = hs[h].data[k]
          /\ \A k \in DOMAIN LoadUserConfig \ DOMAIN hs[h].data :
               k \in DOMAIN userFile'.doc /\ userFile'.doc[k] = LoadUserConfig[k] ]_vars

\* C7: an iteration that starts while logger_paused is set goes straight to
\* the sleep: no feed request, no row, last_poll_time and last_poll_count as
\* they were; the flag is set by nothing but a pause request and cleared by
\* nothing but a resume request, and an iteration that starts with the flag
\* clear polls.
TickStart == pcLoop = "check" /\ pcLoop' # "check"

C7_PausedTickDoesNothing ==
  [][ /\ (TickStart /\ logger_paused) =>
           /\ pcLoop' = "sleep"
           /\ fetches' = 0
           /\ UNCHANGED << positions, total_logged, last_poll_time, last_poll_count >>
      /\ (TickStart /\ ~logger_paused) => pcLoop' = "fetch"
      /\ (pcLoop = "sleep" /\ pcLoop' # "sleep") =>
           /\ pcLoop' = "check"
           /\ UNCHANGED << positions, total_logged, last_poll_time, last_poll_count, fetches >>
      /\ (pcLoop' = "fetch" /\ pcLoop # "fetch") => (pcLoop = "check" /\ ~logger_paused)
      /\ (fetches' > fetches) => pcLoop = "fetch"
      /\ (positions' # positions /\ positions \subseteq positions') => pcLoop = "save"
      /\ (last_poll_time' # last_poll_time \/ last_poll_count' # last_poll_count) =>
           pcLoop = "record"
      /\ (logger_paused' /\ ~logger_paused) => \E h \in Handlers : PauseStep(h)
      /\ (~logger_paused' /\ logger_paused) => \E h \in Handlers : ResumeStep(h) ]_vars

\* After an iteration that polled and logged, a pause request was answered
\* and the loop went through an iteration that did not poll.
C7_Witness ==
  /\ pcLoop = "sleep"
  /\ logger_paused
  /\ fetches = 0
  /\ iterations > polled
  /\ polled >= 1
  /\ last_poll_count > 0
  /\ \E h \in Handlers :
       hs[h].pc = "idle" /\ "paused" \in DOMAIN hs[h].resp /\ hs[h].resp.paused

\* The loop calls cleanup_old_records.
LoopSweepStep == pcLoop = "cleanup" /\ pcLoop' = "sleep"

\* C8: between two consecutive sweeps of the loop (and between loop start
\* and the first) exactly 360 loop iterations elapse, paused or not.
C8_SweepEvery360Iterations ==
  [][ LoopSweepStep => iterations = CleanupEvery ]_vars

\* C8 as amended: between two consecutive sweeps of the loop (and between
\* loop start and the first) exactly 360 iterations that polled elapse;
\* iterations that started paused are not counted.
C8_SweepEvery360Polls ==
  [][ /\ LoopSweepStep => polled = CleanupEvery
      /\ (pcLoop = "record" /\ pcLoop' # "record") =>
           (pcLoop' = "cleanup" <=> polled = CleanupEvery) ]_vars

\* The loop is about to sweep after 360 polls and some paused iterations.
C8_Witness ==
  /\ pcLoop = "cleanup"
  /\ polled = CleanupEvery
  /\ iterations > CleanupEvery

\* C9: an iteration whose feed request fails (unreachable, HTTP error,
\* malformed JSON) inserts no row, records last_poll_count = 0, sends no
\* second request, and the loop goes on to its sleep and the next check; the
\* logger thread never ends on such a failure.
C9_FeedFailureIsAnEmptyTick ==
  [][ /\ (pcLoop = "fetch" /\ pcLoop' # "fetch" /\ feed' \in FeedFailures) =>
           (pcLoop' = "save" /\ aircraft' = << >>)
      /\ (SaveStep /\ feed \in FeedFailures) =>
           (positions' = positions /\ count' = 0 /\ total_logged' = total_logged)
      /\ (pcLoop = "record" /\ pcLoop' # "record" /\ feed \in FeedFailures) =>
           (last_poll_count' = 0 /\ pcLoop' \in { "sleep", "cleanup" })
      /\ fetches' <= 1
      /\ pcLoop' = "dead" => feed' \notin FeedFailures
      /\ (pcLoop = "sleep" /\ pcLoop' # "sleep") => pcLoop' = "check"
      /\ (TickStart /\ ~logger_paused) => (pcLoop' = "fetch" /\ fetches' = 0) ]_vars

\* A poll logged rows, the next one met malformed JSON, and the loop is back
\* at its check.
C9_Witness ==
  /\ pcLoop = "check"
  /\ feed = "bad_json"
  /\ last_poll_count = 0
  /\ total_logged > 0
  /\ polled = 2

\* C10: a request whose write of the persisted document failed is answered
\* with a failure.
C10_WriteFailureIsReported ==
  [][ \A h \in Handlers :
        /\ (ConfigRespondStep(h) /\ hs[h].failed) => ~hs'[h].resp.success
        /\ (UserSaveStep(h) /\ userFile' # OkFile(hs[h].cfg)) => ~hs'[h].resp.success ]_vars

\* C11: recent() returns one entry for each distinct icao with at least one
\* snapshot in the trailing one-hour window (at most 50, by last_seen
\* descending); an entry's lat, lon and altitude are those of the icao's
\* latest snapshot in the window, last_seen is its timestamp and positions
\* the number of the icao's snapshots in the window.
RecentStep(h) == hs[h].pc = "idle" /\ hs'[h] # hs[h] /\ hs'[h].op = "recent"
LastHour == { r \in positions : r.timestamp >= now - HourUnits }

C11_RecentLatestPerIcao ==
  [][ \A h \in Handlers : RecentStep(h) =>
        LET list == hs'[h].resp.aircraft
        IN /\ Len(list) = Shorter(Cardinality({ r.icao : r \in LastHour }), RecentLimit)
           /\ \A i \in DOMAIN list : \A j \in DOMAIN list :
                i < j => /\ list[i].last_seen >= list[j].last_seen
                         /\ list[i].icao # list[j].icao
           /\ \A i \in DOMAIN list :
                LET g == { r \in LastHour : r.icao = list[i].icao }
                IN \E r \in g :
                     /\ \A q \in g : q.timestamp <= r.timestamp
                     /\ list[i].lat = r.lat
                     /\ list[i].lon = r.lon
                     /\ list[i].altitude = r.altitude
                     /\ list[i].last_seen = r.timestamp
                     /\ list[i].positions = Cardinality(g) ]_vars

\* C12: the stored altitude is alt_baro whenever the record has it (0
\* included) and alt_geom only when alt_baro is absent; likewise the stored
\* vertical rate is baro_rate whenever present and geom_rate only when it is
\* absent.
Preferred(ac, first, second) ==
  IF first \in DOMAIN ac THEN Some(ac[first]) ELSE Get(ac, second)

C12_BarometricPreferred ==
  [][ SaveStep =>
        \A i \in Positioned(aircraft) :
          \E r \in positions' \ positions :
            /\ r.id = next_id + Rank(aircraft, i)
            /\ r.altitude = Preferred(aircraft[i], "alt_baro", "alt_geom")
            /\ r.vert_rate = Preferred(aircraft[i], "baro_rate", "geom_rate") ]_vars

\* C13: whenever no settings, pause or resume handler is in progress and the
\* writes have succeeded, the persisted settings document holds the interval,
\* retention_days and paused values of the runtime settings, whatever the
\* interleaving of the concurrent handlers.
Quiescent == \A h \in Handlers : hs[h].pc = "idle"

C13_PersistedMatchesRuntime ==
  (Quiescent /\ configFile.status = "ok") =>
     /\ configFile.doc.interval = LOG_INTERVAL
     /\ configFile.doc.retention_days = LOG_RETENTION_DAYS
     /\ configFile.doc.paused = logger_paused

====
